---- MODULE Spec2Model ----
(***************************************************************************)
(* TableEvaluator of src/smote.py: the constructor that aligns a real and  *)
(* a fake table, and the analytic operations that read the aligned pair.   *)
(*                                                                         *)
(* A DataFrame is an object on a heap: the caller's two tables and the     *)
(* evaluator's self.real / self.fake are distinct objects, and an          *)
(* operation that assigns a column in place writes to the object.          *)
(***************************************************************************)
EXTENDS Integers, Sequences, FiniteSets, TLC

VARIABLES heap, ev, ret

vars == <<heap, ev, ret>>

----------------------------------------------------------------------------
(* Bounds of the model. *)

\* Most rows of a caller's table in SpecAlign.
MaxRows == 2

\* Most rows of a caller's table in Spec.
MaxOpsRows == 2

\* Most rows of a caller's table in SpecRead.
MaxReadRows == 2

\* Most rows of an aligned table in SpecEnc.
MaxEncRows == 3

\* In SpecDet: the rows a caller's table has beyond the NSplits a 5-fold
\* split needs, and the most rows of fake that differ from the others.
MaxDetExtra == 0
MaxDetOnes == 2

\* Floating-point numbers are kept as integers, in units of 1/Scale.
Scale == 100

----------------------------------------------------------------------------
(* Cells, rows and tables. *)

\* The strings a cell may hold, in Python's string order ('[' < 'x' < 'y' < 'z').
\* A string cell holds the position of its string in this list.
StrValues == <<"[NAN]", "x", "y", "z">>

StrCell(s) == [k |-> "str", v |-> CHOOSE i \in 1..Len(StrValues) : StrValues[i] = s]
IntCell(n) == [k |-> "int", v |-> n]
\* A float64 cell, in units of 1/Scale.
FloatCell(x) == [k |-> "float", v |-> x * Scale]
\* A missing entry (None / NaN) of an object or float64 column.
NaNCell == [k |-> "nan", v |-> 0]

\* The number a numeric cell holds, in units of 1/Scale.
Fp(cell) == IF cell.k = "float" THEN cell.v ELSE cell.v * Scale

\* A table: column names, the dtype of each column, and the rows (each a
\* sequence of cells in column order).
Table(columns, dtypes, rows) == [columns |-> columns, dtypes |-> dtypes, rows |-> rows]

NoTable == Table(<<>>, <<>>, <<>>)

Range(s) == {s[i] : i \in 1..Len(s)}

Min(a, b) == IF a <= b THEN a ELSE b

\* Position of column c in table t.
ColPos(t, c) == CHOOSE i \in 1..Len(t.columns) : t.columns[i] = c

\* t[c]: the column's values, row by row.
Column(t, c) == [i \in 1..Len(t.rows) |-> t.rows[i][ColPos(t, c)]]

Dtype(t, c) == t.dtypes[ColPos(t, c)]

\* t[cols]: the columns cols of t, in the order of cols.
Reindex(t, cols) ==
    Table(cols,
          [j \in 1..Len(cols) |-> Dtype(t, cols[j])],
          [i \in 1..Len(t.rows) |-> [j \in 1..Len(cols) |-> t.rows[i][ColPos(t, cols[j])]]])

\* t with column c replaced by the values vals, of dtype dt.
SetColumn(t, c, vals, dt) ==
    Table(t.columns,
          [j \in 1..Len(t.columns) |-> IF t.columns[j] = c THEN dt ELSE t.dtypes[j]],
          [i \in 1..Len(t.rows) |->
              [j \in 1..Len(t.columns) |->
                  IF t.columns[j] = c THEN vals[i] ELSE t.rows[i][j]]])

\* The one-to-one maps from 1..n into 1..m: the row choices of sample(n).
Injections(n, m) ==
    {p \in [1..n -> 1..m] : \A i, j \in 1..n : i # j => p[i] # p[j]}

\* DataFrame.sample(n): n rows of t, drawn without replacement in a random
\* order. No random_state is passed, so every draw is possible.
Sample(t, n) ==
    {[t EXCEPT !.rows = [i \in 1..n |-> t.rows[p[i]]]] : p \in Injections(n, Len(t.rows))}

\* fillna('[NAN]').astype(str) on the categorical columns.
FillnaStr(t, cat_cols) ==
    [t EXCEPT !.rows =
        [i \in 1..Len(t.rows) |->
            [j \in 1..Len(t.columns) |->
                IF t.columns[j] \in Range(cat_cols) /\ t.rows[i][j].k = "nan"
                THEN StrCell("[NAN]") ELSE t.rows[i][j]]]]

RECURSIVE SumSeq(_)
SumSeq(s) == IF s = <<>> THEN 0 ELSE Head(s) + SumSeq(Tail(s))

\* fillna(t[num_cols].mean()) on the numerical columns: a missing cell gets
\* the mean of the cells of its column that are not missing (and stays
\* missing when there is none).
FillnaMean(t, num_cols) ==
    LET present(j) == SelectSeq([i \in 1..Len(t.rows) |-> t.rows[i][j]], LAMBDA x : x.k # "nan")
        mean(j) == SumSeq([i \in 1..Len(present(j)) |-> Fp(present(j)[i])]) \div Len(present(j))
    IN  [t EXCEPT !.rows =
            [i \in 1..Len(t.rows) |->
                [j \in 1..Len(t.columns) |->
                    IF /\ t.columns[j] \in Range(num_cols)
                       /\ t.rows[i][j].k = "nan"
                       /\ present(j) # <<>>
                    THEN [k |-> "float", v |-> mean(j)] ELSE t.rows[i][j]]]]

----------------------------------------------------------------------------
(* Objects. *)

\* The caller's tables, passed to the constructor as real and fake.
RealArg == <<0, "real">>
FakeArg == <<0, "fake">>

Evaluators == {1, 2}

\* DataFrame.copy() / DataFrame.sample(): the result is a new object, owned
\* by evaluator e.
NewObject(e, src) == <<e, src[2]>>

Objects == {RealArg, FakeArg} \cup {<<e, s>> : e \in Evaluators, s \in {"real", "fake"}}

----------------------------------------------------------------------------
(* TableEvaluator.__init__ *)

NoArg == [given |-> FALSE, n |-> 0]
Arg(n) == [given |-> TRUE, n |-> n]

\* Columns of numeric dtype with more than unique_thresh (0) distinct values.
NumericalColumns(t) ==
    SelectSeq(t.columns,
              LAMBDA c : Dtype(t, c) # "object" /\ Cardinality(Range(Column(t, c))) > 0)

CategoricalColumns(t) ==
    SelectSeq(t.columns, LAMBDA c : c \notin Range(NumericalColumns(t)))

\* A constructor that only compares the column names of the two tables when
\* they are as many (it lacks the assertion on the column lists).
InitOutcomeUnasserted(real, fake, nArg) ==
    IF /\ Len(real.columns) = Len(fake.columns)
       /\ ~(Range(real.columns) \subseteq Range(fake.columns))
    THEN "KeyError"
    ELSE IF nArg.given /\ ~(Len(fake.rows) >= nArg.n /\ Len(real.rows) >= nArg.n)
    THEN "Exception"
    ELSE "ok"

\* How the constructor ends on the tables real and fake and the argument
\* n_samples: the exception it raises, or "ok".
InitOutcome(real, fake, nArg) ==
    LET sameLen == Len(real.columns) = Len(fake.columns)
        fakeCols == IF sameLen THEN real.columns ELSE fake.columns
    IN  IF sameLen /\ ~(Range(real.columns) \subseteq Range(fake.columns))
        THEN "KeyError"
        ELSE IF real.columns # fakeCols
        THEN "AssertionError"
        ELSE IF nArg.given /\ ~(Len(fake.rows) >= nArg.n /\ Len(real.rows) >= nArg.n)
        THEN "Exception"
        ELSE "ok"

\* A constructor that always takes the length of the shorter table.
NSamplesShorter(real, fake, nArg) == Min(Len(real.rows), Len(fake.rows))

\* self.n_samples
NSamples(real, fake, nArg) ==
    IF nArg.given THEN nArg.n ELSE Min(Len(real.rows), Len(fake.rows))

\* The columns of self.fake: self.fake is the copy taken of the argument
\* before the local name fake is rebound to the reordered table.
SelfFakeColumns(real, fake) == fake.columns

\* seed=1337
DefaultSeed == 1337

\* What no call has set yet.
Unset == <<>>

NoEvaluator ==
    [state |-> "none", n_samples |-> 0,
     numerical_columns |-> <<>>, categorical_columns |-> <<>>, random_seed |-> 0,
     target_col |-> "", target_type |-> "",
     statistical_results |-> Unset, correlation_correlations |-> Unset,
     estimators_scores |-> Unset, estimator_calls |-> <<>>]

\* The last call: the operation, the evaluator, the arguments, the exception
\* raised ("" when it returned) and the value returned.
Ret(op, e, arg, exc, val) == [op |-> op, e |-> e, arg |-> arg, exc |-> exc, val |-> val]

NoRet == Ret("", 0, <<>>, "", <<>>)

\* The evaluator's fields after a constructor that did not raise.
NewEvaluator(real, n, seed) ==
    [NoEvaluator EXCEPT !.state = "ok", !.n_samples = n,
                        !.numerical_columns = NumericalColumns(real),
                        !.categorical_columns = CategoricalColumns(real),
                        !.random_seed = seed]

\* The missing entries of the sampled table t filled, by the column typing
\* taken from real.
Imputed(t, real) ==
    FillnaMean(FillnaStr(t, CategoricalColumns(real)), NumericalColumns(real))

\* The heap once the constructor of evaluator e has stored the sampled
\* tables r and f.
AlignedHeap(h, e, r, f) ==
    [h EXCEPT ![NewObject(e, RealArg)] = Imputed(r, h[RealArg]),
              ![NewObject(e, FakeArg)] = Imputed(f, h[RealArg])]

Init_(e, nArg, seed) ==
    \E out \in {InitOutcome(heap[RealArg], heap[FakeArg], nArg)} :
      LET real == heap[RealArg]
          fake == heap[FakeArg]
          n    == NSamples(real, fake, nArg)
      IN  /\ ev[e].state = "none"
          /\ IF out # "ok"
             THEN /\ ev' = [ev EXCEPT ![e].state = "raised"]
                  /\ ret' = Ret("__init__", e, <<nArg, seed>>, out, <<>>)
                  /\ UNCHANGED heap
             ELSE \E r \in Sample(real, n),
                     f \in Sample(Reindex(fake, SelfFakeColumns(real, fake)), n) :
                    /\ ev' = [ev EXCEPT ![e] = NewEvaluator(real, n, seed)]
                    /\ ret' = Ret("__init__", e, <<nArg, seed>>, "", <<>>)
                    /\ heap' = AlignedHeap(heap, e, r, f)

----------------------------------------------------------------------------
(* The ordinal encoder: convert_numerical. *)

\* The distinct values of vals below v, in the order of the cells' values.
NrBelow(vals, v) == Cardinality({w \in Range(vals) : w.v < v.v})

\* pd.factorize(vals, sort=True)[0]: each value's rank among the sorted
\* distinct values.
FactorizeSorted(vals) == [i \in 1..Len(vals) |-> IntCell(NrBelow(vals, vals[i]))]

\* The loop of convert_numerical over the columns cs: a categorical column
\* whose dtype in real is object is replaced by its codes, in real and in
\* fake, each table with its own codes.
RECURSIVE ConvertLoop(_, _, _)
ConvertLoop(real, fake, cs) ==
    IF cs = <<>> THEN <<real, fake>>
    ELSE LET c == Head(cs)
         IN  IF Dtype(real, c) = "object"
             THEN ConvertLoop(SetColumn(real, c, FactorizeSorted(Column(real, c)), "int64"),
                              SetColumn(fake, c, FactorizeSorted(Column(fake, c)), "int64"),
                              Tail(cs))
             ELSE ConvertLoop(real, fake, Tail(cs))

\* The object convert_numerical works on: real = self.real names the
\* evaluator's own table, and real[c] = ... assigns its column in place.
\* An encoder that works on the tables the caller passed.
ConvertCallerTarget(e, side) == <<0, side>>

ConvertTarget(e, side) == <<e, side>>

\* The heap after convert_numerical() on evaluator e.
ConvertedHeap(h, e, cat_cols) ==
    LET p == ConvertLoop(h[<<e, "real">>], h[<<e, "fake">>], cat_cols)
    IN  [h EXCEPT ![ConvertTarget(e, "real")] = p[1], ![ConvertTarget(e, "fake")] = p[2]]

----------------------------------------------------------------------------
(* The one-hot encoder: numerical_encoding and convert_numerical_one_hot. *)

\* The name of an encoded column: the column it comes from and, for an
\* indicator column of get_dummies (prefix_value), the value it indicates.
NoSuffix == [k |-> "none", v |-> 0]
EncName(base, suffix) == [base |-> base, suffix |-> suffix]

\* Python's order of the names: "c" < "c_0" < "c_1" < "c_[NAN]" < "c_x" < "m" < "n".
BaseRank(b) == CASE b = "c" -> 1 [] b = "m" -> 2 [] OTHER -> 3
SuffixRank(s) == CASE s.k = "none" -> 0 [] s.k = "int" -> 1 + s.v [] OTHER -> 100 + s.v
NameLess(a, b) ==
    \/ BaseRank(a.base) < BaseRank(b.base)
    \/ BaseRank(a.base) = BaseRank(b.base) /\ SuffixRank(a.suffix) < SuffixRank(b.suffix)

\* The set S as a sequence, in some order.
SetToSeq(S) == CHOOSE s \in [1..Cardinality(S) -> S] : Range(s) = S

\* The names S in sorted order.
SortedNames(S) == SortSeq(SetToSeq(S), NameLess)

\* The values S of a column in sorted order, as get_dummies lists them.
SortedValues(S) == SortSeq(SetToSeq(S), LAMBDA a, b : a.v < b.v)

\* pd.factorize(vals)[0]: each value's rank in order of first appearance.
FirstPos(vals, v) == CHOOSE i \in 1..Len(vals) : vals[i] = v /\ \A j \in 1..(i - 1) : vals[j] # v
FactorizeAppearance(vals) ==
    [i \in 1..Len(vals) |->
        Cardinality({FirstPos(vals, w) : w \in {x \in Range(vals) : FirstPos(vals, x) < FirstPos(vals, vals[i])}})]

\* An encoded column: its name and its numbers, row by row.
EncCol(name, vals) == [name |-> name, vals |-> vals]

\* The columns numerical_encoding makes of column c of t: a column that is
\* not nominal is kept; a nominal column with one value becomes 0, with two
\* values its factorize codes, otherwise its get_dummies indicator columns
\* (one per value, in the order of the values).
EncodeColumn(t, c, nominal) ==
    LET vals == Column(t, c)
        uniq == Range(vals)
    IN  IF c \notin Range(nominal)
        THEN <<EncCol(EncName(c, NoSuffix), [i \in 1..Len(vals) |-> Fp(vals[i])])>>
        ELSE IF Cardinality(uniq) = 1
        THEN <<EncCol(EncName(c, NoSuffix), [i \in 1..Len(vals) |-> 0])>>
        ELSE IF Cardinality(uniq) = 2
        THEN <<EncCol(EncName(c, NoSuffix),
                      [i \in 1..Len(vals) |-> FactorizeAppearance(vals)[i] * Scale])>>
        ELSE LET cats == SortedValues(uniq)
             IN  [j \in 1..Len(cats) |->
                     EncCol(EncName(c, cats[j]),
                            [i \in 1..Len(vals) |-> IF vals[i] = cats[j] THEN Scale ELSE 0])]

RECURSIVE EncodeColumns(_, _, _)
EncodeColumns(t, cs, nominal) ==
    IF cs = <<>> THEN <<>>
    ELSE EncodeColumn(t, Head(cs), nominal) \o EncodeColumns(t, Tail(cs), nominal)

\* An encoded table: its number of rows and its columns.
numerical_encoding(t, nominal) ==
    [n |-> Len(t.rows), cols |-> EncodeColumns(t, t.columns, nominal)]

EncNames(f) == [j \in 1..Len(f.cols) |-> f.cols[j].name]

EncColumn(f, name) == (CHOOSE j \in 1..Len(f.cols) : f.cols[j].name = name)

\* f[names], where a name f lacks has first been added as a column of zeros.
WithColumns(f, names) ==
    [n |-> f.n,
     cols |-> [j \in 1..Len(names) |->
                 IF names[j] \in Range(EncNames(f))
                 THEN f.cols[EncColumn(f, names[j])]
                 ELSE EncCol(names[j], [i \in 1..f.n |-> 0])]]

\* sorted(real.columns.tolist())
SortedColumns(f) == SortedNames(Range(EncNames(f)))

\* An encoder that keeps the columns of either expansion.
OneHotColumnsOfBoth(realEnc, fakeEnc) ==
    SortedNames(Range(EncNames(realEnc)) \cup Range(EncNames(fakeEnc)))

\* The columns both results of convert_numerical_one_hot are given.
OneHotColumns(realEnc, fakeEnc) == SortedColumns(realEnc)

convert_numerical_one_hot(real, fake, cat_cols) ==
    LET realEnc == numerical_encoding(real, cat_cols)
        fakeEnc == numerical_encoding(fake, cat_cols)
        columns == OneHotColumns(realEnc, fakeEnc)
    IN  <<WithColumns(realEnc, columns), WithColumns(fakeEnc, columns)>>

----------------------------------------------------------------------------
(* The copy and duplicate detector. *)

\* get_copies: the rows of fake whose tuple hashes as the tuple of some row
\* of real (the hash is taken to tell different tuples apart).
CopiedRows(real, fake) == SelectSeq(fake.rows, LAMBDA r : r \in Range(real.rows))

get_copies(real, fake, return_len) ==
    IF return_len THEN <<Len(CopiedRows(real, fake))>> ELSE CopiedRows(real, fake)

\* t[t.duplicated(keep=False)]: every row that occurs more than once in t.
Duplicated(t) ==
    LET dup(i) == \E j \in 1..Len(t.rows) : j # i /\ t.rows[j] = t.rows[i]
        RECURSIVE Pick(_)
        Pick(i) == IF i > Len(t.rows) THEN <<>>
                   ELSE (IF dup(i) THEN <<t.rows[i]>> ELSE <<>>) \o Pick(i + 1)
    IN  Pick(1)

get_duplicates(real, fake, return_values) ==
    IF return_values THEN <<Duplicated(real), Duplicated(fake)>>
    ELSE <<Len(Duplicated(real)), Len(Duplicated(fake))>>

----------------------------------------------------------------------------
(* The privacy distance: row_distance. *)

\* The largest r with r * r <= n.
RECURSIVE ISqrtIn(_, _, _)
ISqrtIn(lo, hi, n) ==
    IF lo >= hi THEN lo
    ELSE LET mid == (lo + hi + 1) \div 2
         IN  IF mid * mid <= n THEN ISqrtIn(mid, hi, n) ELSE ISqrtIn(lo, mid - 1, n)

ISqrt(n) == ISqrtIn(0, Min(n, 46340), n)

Mean(vals) == SumSeq(vals) \div Len(vals)

SumSqDevFrom(vals, m) == SumSeq([i \in 1..Len(vals) |-> (vals[i] - m) * (vals[i] - m)])

SumSqDev(vals) == SumSqDevFrom(vals, Mean(vals))

\* Series.std(): the sample standard deviation (ddof = 1).
SampleStd(vals) == ISqrt(SumSqDev(vals) \div (Len(vals) - 1))

\* np.std(): the population standard deviation (ddof = 0).
PopulationStd(vals) == ISqrt(SumSqDev(vals) \div Len(vals))

\* (col - col.mean()) / col.std()
Standardize(vals) ==
    [i \in 1..Len(vals) |-> ((vals[i] - Mean(vals)) * Scale) \div SampleStd(vals)]

\* The columns row_distance standardizes: those with more than 2 distinct
\* values in real.
StandardizedColumns(real) ==
    {j \in 1..Len(real.cols) : Cardinality(Range(real.cols[j].vals)) > 2}

StandardizeFrame(f, js) ==
    [f EXCEPT !.cols = [j \in 1..Len(f.cols) |->
        IF j \in js THEN EncCol(f.cols[j].name, Standardize(f.cols[j].vals)) ELSE f.cols[j]]]

EncRow(f, i) == [j \in 1..Len(f.cols) |-> f.cols[j].vals[i]]

\* f[:n]: the positions of the first n rows.
FirstRows(f, n) == 1..Min(n, f.n)

\* The Euclidean distance of two rows.
Euclidean(a, b) == ISqrt(SumSeq([j \in 1..Len(a) |-> (a[j] - b[j]) * (a[j] - b[j])]))

MinOf(S) == CHOOSE x \in S : \A y \in S : x <= y

\* np.min(cdist(real[:n], fake[:n]), axis=1): cdist's rows are those of its
\* first argument, and the minimum along axis 1 is taken over its second.
MinDistances(first, second, n) ==
    [i \in FirstRows(first, n) |->
        MinOf({Euclidean(EncRow(first, i), EncRow(second, k)) : k \in FirstRows(second, n)})]

\* What row_distance(n_samples) returns on the aligned pair: the exception
\* it raises, else (mean, std) of the minimum distances, which are NaN when
\* a standardized column of fake has standard deviation 0.
RowDistanceResult(exc, nan, mean, std) == [exc |-> exc, nan |-> nan, mean |-> mean, std |-> std]

\* The two encoded tables after the loop that standardizes the columns;
\* nan: a standardized column of fake is 0/0 throughout.
StandardizedPair(real, fake, cat_cols) ==
    LET enc == convert_numerical_one_hot(real, fake, cat_cols)
        js  == StandardizedColumns(enc[1])
        nan == \E j \in js : SampleStd(enc[2].cols[j].vals) = 0
    IN  [real |-> StandardizeFrame(enc[1], js),
         fake |-> IF nan THEN enc[2] ELSE StandardizeFrame(enc[2], js),
         nan  |-> nan]

\* The n_samples row_distance works with.
DistanceRows(real, nArg) == IF nArg.given THEN nArg.n ELSE Len(real.rows)

row_distance(real, fake, cat_cols, nArg) ==
    LET n    == DistanceRows(real, nArg)
        sp   == StandardizedPair(real, fake, cat_cols)
        mins == MinDistances(sp.real, sp.fake, n)
    IN  IF FirstRows(sp.real, n) = {} \/ FirstRows(sp.fake, n) = {}
        THEN RowDistanceResult("ValueError", FALSE, 0, 0)
        ELSE IF sp.nan THEN RowDistanceResult("", TRUE, 0, 0)
        ELSE RowDistanceResult("", FALSE, Mean(mins), PopulationStd(mins))

----------------------------------------------------------------------------
(* The ML efficacy evaluator: estimator_evaluation. *)

\* KFold(n_splits=5)
NSplits == 5

TargetTypes == {"class", "regr", "other"}

\* KFold.split without shuffling: the first n % NSplits folds have
\* n \div NSplits + 1 rows, the others n \div NSplits; fold i's test rows
\* are the next consecutive positions, its train rows all the others.
FoldSize(n, i) == n \div NSplits + (IF i <= n % NSplits THEN 1 ELSE 0)

FoldStart(n, i) == SumSeq([k \in 1..(i - 1) |-> FoldSize(n, k)])

TestIndex(n, i) == [k \in 1..FoldSize(n, i) |-> FoldStart(n, i) + k]

TrainIndex(n, i) ==
    SelectSeq([k \in 1..n |-> k], LAMBDA k : k \notin Range(TestIndex(n, i)))

\* t.iloc[index]
Iloc(t, index) == [t EXCEPT !.rows = [k \in 1..Len(index) |-> t.rows[index[k]]]]

\* The train and test tables the loop assigns for fold i (x and y together:
\* real_x and real_y are the columns of one table).
FoldData(real, fake, i) ==
    [fold |-> i,
     train_index |-> TrainIndex(Len(real.rows), i),
     test_index  |-> TestIndex(Len(real.rows), i),
     real_train |-> Iloc(real, TrainIndex(Len(real.rows), i)),
     real_test  |-> Iloc(real, TestIndex(Len(real.rows), i)),
     fake_train |-> Iloc(fake, TrainIndex(Len(real.rows), i)),
     fake_test  |-> Iloc(fake, TestIndex(Len(real.rows), i))]

\* fit_estimators then score_estimators on one fold: the metric table the
\* seeded estimators give on the fold's data. The estimators are library
\* code; their table is kept as the data it is computed from.
FoldScores(data, target_col, target_type, seed) ==
    [target_col |-> target_col, target_type |-> target_type, seed |-> seed, data |-> data]

\* The folds the loop runs: all of them with kfold, else the first only.
FoldsRun(kfold) == IF kfold THEN NSplits ELSE 1

\* An estimator_evaluation that takes any target type.
EstimatorOutcomeOfAnyType(real, fake, target_col, target_type) ==
    IF target_col \notin Range(real.columns) \/ target_col \notin Range(fake.columns)
    THEN "KeyError"
    ELSE IF Len(real.rows) < NSplits
    THEN "ValueError"
    ELSE "ok"

\* How estimator_evaluation ends on the (already converted) aligned pair.
EstimatorOutcome(real, fake, target_col, target_type) ==
    IF target_col \notin Range(real.columns) \/ target_col \notin Range(fake.columns)
    THEN "KeyError"
    ELSE IF SelectSeq(real.columns, LAMBDA c : c # target_col)
            # SelectSeq(fake.columns, LAMBDA c : c # target_col)
    THEN "AssertionError"
    ELSE IF target_type \notin {"regr", "class"}
    THEN "ValueError"
    ELSE IF Len(real.rows) < NSplits
    THEN "ValueError"
    ELSE "ok"

\* res: the metric tables of the folds run, in order.
EstimatorsRes(real, fake, target_col, target_type, kfold, seed) ==
    [i \in 1..FoldsRun(kfold) |-> FoldScores(FoldData(real, fake, i), target_col, target_type, seed)]

\* self.estimators: the panel of the target type, by class name.
Panel(target_type) ==
    IF target_type = "regr"
    THEN <<"RandomForestRegressor", "Lasso", "Ridge", "ElasticNet">>
    ELSE IF target_type = "class"
    THEN <<"LogisticRegression", "RandomForestClassifier", "DecisionTreeClassifier", "MLPClassifier">>
    ELSE <<>>

\* What the fold loop does with an estimator: kind is "deepcopy", "fit",
\* "score" or "mean"; fold is the fold of the loop; side tells r_estimators
\* ("real") from f_estimators ("fake"); index holds the row positions the
\* call is given (train_index for fit, test_index for score).
Call(kind, fold, side, estimator, index) ==
    [kind |-> kind, fold |-> fold, side |-> side, estimator |-> estimator, index |-> index]

\* copy.deepcopy(self.estimators), estimator by estimator.
DeepCopies(i, side, panel) ==
    [k \in 1..Len(panel) |-> Call("deepcopy", i, side, panel[k], <<>>)]

\* fit_estimators: the copies of the fold for real are fitted on real's
\* train rows, then those for fake on fake's.
FitEstimators(n, i, panel) ==
    [k \in 1..Len(panel) |-> Call("fit", i, "real", panel[k], TrainIndex(n, i))]
    \o [k \in 1..Len(panel) |-> Call("fit", i, "fake", panel[k], TrainIndex(n, i))]

\* score_estimators: every copy of the fold predicts on the test rows of
\* real and of fake. For 'class' the loop goes estimator by estimator, and
\* for each by dataset, the copy for real before the copy for fake; for
\* 'regr' the four lists r2r, f2f, r2f, f2r are built one after the other.
ScoreEstimators(n, i, panel, target_type) ==
    LET scored(side) == [k \in 1..Len(panel) |-> Call("score", i, side, panel[k], TestIndex(n, i))]
    IN  IF target_type = "class"
        THEN [k \in 1..(4 * Len(panel)) |->
                 Call("score", i, IF k % 2 = 1 THEN "real" ELSE "fake",
                      panel[(k + 3) \div 4], TestIndex(n, i))]
        ELSE scored("real") \o scored("fake") \o scored("real") \o scored("fake")

\* A pass of the loop that scores the copies of the fold before it fits them.
FoldCallsScoredFirst(n, i, panel, target_type) ==
    DeepCopies(i, "real", panel) \o DeepCopies(i, "fake", panel)
    \o ScoreEstimators(n, i, panel, target_type) \o FitEstimators(n, i, panel)

\* One pass of the loop over kf.split.
FoldCalls(n, i, panel, target_type) ==
    DeepCopies(i, "real", panel) \o DeepCopies(i, "fake", panel)
    \o FitEstimators(n, i, panel) \o ScoreEstimators(n, i, panel, target_type)

RECURSIVE LoopCalls(_, _, _, _)
LoopCalls(n, i, last, target_type) ==
    IF i > last THEN <<>>
    ELSE FoldCalls(n, i, Panel(target_type), target_type) \o LoopCalls(n, i + 1, last, target_type)

\* The calls of a run of estimator_evaluation on n rows that does not
\* raise: the loop, then the mean over the folds run.
EstimatorCalls(n, target_type, kfold) ==
    LoopCalls(n, 1, FoldsRun(kfold), target_type)
    \o <<Call("mean", FoldsRun(kfold), "", "", <<>>)>>

----------------------------------------------------------------------------
(* The operations of a constructed evaluator e. *)

SelfReal(e) == heap[<<e, "real">>]
SelfFake(e) == heap[<<e, "fake">>]

Constructed(e) == ev[e].state = "ok"

ConvertNumerical(e) ==
    /\ Constructed(e)
    /\ heap' = ConvertedHeap(heap, e, ev[e].categorical_columns)
    /\ ret' = Ret("convert_numerical", e, <<>>, "", <<ConvertTarget(e, "real"), ConvertTarget(e, "fake")>>)
    /\ UNCHANGED ev

ConvertNumericalOneHot(e) ==
    /\ Constructed(e)
    /\ ret' = Ret("convert_numerical_one_hot", e, <<>>, "",
                  convert_numerical_one_hot(SelfReal(e), SelfFake(e), ev[e].categorical_columns))
    /\ UNCHANGED <<heap, ev>>

GetCopies(e, return_len) ==
    /\ Constructed(e)
    /\ ret' = Ret("get_copies", e, <<return_len>>, "",
                  get_copies(SelfReal(e), SelfFake(e), return_len))
    /\ UNCHANGED <<heap, ev>>

GetDuplicates(e, return_values) ==
    /\ Constructed(e)
    /\ ret' = Ret("get_duplicates", e, <<return_values>>, "",
                  get_duplicates(SelfReal(e), SelfFake(e), return_values))
    /\ UNCHANGED <<heap, ev>>

RowDistance(e, nArg) ==
    /\ Constructed(e)
    /\ \E res \in {row_distance(SelfReal(e), SelfFake(e), ev[e].categorical_columns, nArg)} :
          ret' = Ret("row_distance", e, <<nArg>>, res.exc, res)
    /\ UNCHANGED <<heap, ev>>

\* column_correlations(real, fake, categorical_columns) of table_evaluator.metrics,
\* on the tables convert_numerical returns: library code, its result kept as
\* the tables it is computed from.
ColumnCorrelationsOf(real, fake, cat_cols) == [of |-> "column_correlations", real |-> real, fake |-> fake]

ColumnCorrelations(e) ==
    \E h \in {ConvertedHeap(heap, e, ev[e].categorical_columns)} :
      /\ Constructed(e)
      /\ heap' = h
      /\ ret' = Ret("column_correlations", e, <<>>, "",
                    ColumnCorrelationsOf(h[<<e, "real">>], h[<<e, "fake">>],
                                         ev[e].categorical_columns))
      /\ UNCHANGED ev

\* total_metrics of basic_statistical_evaluation: mean, median, std and
\* variance of the numerical columns of each table, kept as those columns.
StatisticalResults(real, fake, num_cols) ==
    [of |-> "mean_median_std_var", real |-> Reindex(real, num_cols), fake |-> Reindex(fake, num_cols)]

BasicStatisticalEvaluation(e) ==
    LET total == StatisticalResults(SelfReal(e), SelfFake(e), ev[e].numerical_columns)
    IN  /\ Constructed(e)
        /\ ev' = [ev EXCEPT ![e].statistical_results = total]
        /\ ret' = Ret("basic_statistical_evaluation", e, <<>>, "", [of |-> "spearmanr", on |-> total])
        /\ UNCHANGED heap

\* compute_associations(ds, nominal_columns=categorical_columns, theil_u=True)
\* of each table, off the diagonal, kept as the tables.
Associations(real, fake, cat_cols) ==
    [of |-> "compute_associations", real |-> real, fake |-> fake, nominal |-> cat_cols]

CorrelationCorrelation(e) ==
    LET total == Associations(SelfReal(e), SelfFake(e), ev[e].categorical_columns)
    IN  /\ Constructed(e)
        /\ ev' = [ev EXCEPT ![e].correlation_correlations = total]
        /\ ret' = Ret("correlation_correlation", e, <<>>, "", [of |-> "comparison_metric", on |-> total])
        /\ UNCHANGED heap

DistanceKinds == {"euclidean", "mae", "rmse", "cosine"}

CorrelationDistance(e, how) ==
    /\ Constructed(e)
    /\ ret' = IF how \in DistanceKinds
              THEN Ret("correlation_distance", e, <<how>>, "",
                       [of |-> how,
                        on |-> Associations(SelfReal(e), SelfFake(e), ev[e].categorical_columns)])
              ELSE Ret("correlation_distance", e, <<how>>, "ValueError", <<>>)
    /\ UNCHANGED <<heap, ev>>

\* estimators_scores: pd.concat(res).groupby(level=0).mean()
EstimatorsScores(res) == [of |-> "mean_over_folds", res |-> res]

EstimatorEvaluation(e, target_col, target_type, kfold) ==
    \E h \in {ConvertedHeap(heap, e, ev[e].categorical_columns)} :
      LET real == h[<<e, "real">>]
          fake == h[<<e, "fake">>]
          out  == EstimatorOutcome(real, fake, target_col, target_type)
          res  == EstimatorsRes(real, fake, target_col, target_type, kfold, ev[e].random_seed)
          arg  == <<target_col, target_type, kfold>>
      IN  /\ Constructed(e)
          /\ heap' = h
          /\ IF out = "ok"
             THEN \E scores \in {EstimatorsScores(res)} :
                  /\ ev' = [ev EXCEPT ![e].target_col = target_col, ![e].target_type = target_type,
                                      ![e].estimators_scores = scores,
                                      ![e].estimator_calls =
                                          EstimatorCalls(Len(real.rows), target_type, kfold)]
                  /\ ret' = Ret("estimator_evaluation", e, arg, "",
                                [of |-> IF target_type = "regr" THEN "comparison_metric" ELSE "1 - mape",
                                 on |-> scores])
             ELSE /\ ev' = [ev EXCEPT ![e].target_col = target_col, ![e].target_type = target_type,
                                      ![e].estimator_calls = <<>>]
                  /\ ret' = Ret("estimator_evaluation", e, arg, out, <<>>)

----------------------------------------------------------------------------
(* evaluate *)

\* n_samples_distance: int = 20000
DefaultNSamplesDistance == 20000

\* The names of the sections of the mapping evaluate returns with
\* return_outputs: overview, ML efficacy, privacy, and the two statistical
\* tables.
Sections(target_type) ==
    {"Overview Results",
     IF target_type = "class" THEN "Classifier Results" ELSE "\nRegressor MSE-scores",
     "Privacy Results", "Jensen-Shannon distance", "Kolmogorov-Smirnov statistic"}

\* An overview whose Similarity Score leaves the estimators' score out.
AllResultsOfTwo(basic_statistical, correlation_correlation, estimators) ==
    [basic_statistical |-> basic_statistical,
     correlation_correlation |-> correlation_correlation,
     estimators |-> estimators,
     similarity_score |-> [of |-> "np.mean",
                           on |-> <<basic_statistical, correlation_correlation>>]]

\* all_results_dict: the three scores and their mean, the Similarity Score.
AllResults(basic_statistical, correlation_correlation, estimators) ==
    [basic_statistical |-> basic_statistical,
     correlation_correlation |-> correlation_correlation,
     estimators |-> estimators,
     similarity_score |-> [of |-> "np.mean",
                           on |-> <<basic_statistical, correlation_correlation, estimators>>]]

Evaluate(e, target_col, target_type, nDist, kfold, return_outputs) ==
    \E h \in {ConvertedHeap(heap, e, ev[e].categorical_columns)},
       stat \in {StatisticalResults(SelfReal(e), SelfFake(e), ev[e].numerical_columns)},
       corr \in {Associations(SelfReal(e), SelfFake(e), ev[e].categorical_columns)} :
      LET cat   == ev[e].categorical_columns
          real  == h[<<e, "real">>]
          fake  == h[<<e, "fake">>]
          out   == EstimatorOutcome(real, fake, target_col, target_type)
          res   == EstimatorsRes(real, fake, target_col, target_type, kfold, ev[e].random_seed)
          arg   == <<target_col, target_type, nDist, kfold, return_outputs>>
          set   == [ev EXCEPT ![e].statistical_results = stat,
                              ![e].correlation_correlations = corr,
                              ![e].target_col = target_col, ![e].target_type = target_type,
                              ![e].estimator_calls = <<>>]
      IN  /\ Constructed(e)
          /\ heap' = h
          /\ IF out # "ok"
             THEN /\ ev' = set
                  /\ ret' = Ret("evaluate", e, arg, out, <<>>)
             ELSE \E dist \in {row_distance(real, fake, cat, nDist)},
                     scores \in {EstimatorsScores(res)} :
                  /\ ev' = [set EXCEPT ![e].estimators_scores = scores,
                                       ![e].estimator_calls =
                                           EstimatorCalls(Len(real.rows), target_type, kfold)]
                  /\ ret' = IF dist.exc # ""
                            THEN Ret("evaluate", e, arg, dist.exc, <<>>)
                            ELSE IF return_outputs
                            THEN Ret("evaluate", e, arg, "",
                                     [sections |-> Sections(target_type),
                                      overview |-> AllResults(
                                          [of |-> "spearmanr", on |-> stat],
                                          [of |-> "comparison_metric", on |-> corr],
                                          [of |-> IF target_type = "regr" THEN "comparison_metric"
                                                  ELSE "1 - mape",
                                           on |-> scores]),
                                      efficacy |-> scores,
                                      privacy |-> dist])
                            ELSE Ret("evaluate", e, arg, "", <<>>)

----------------------------------------------------------------------------
(* Inputs. *)

\* The tables with the columns cols, of dtypes dtypes, with lo..hi rows
\* drawn from rows.
TablesOver(cols, dtypes, rows, lo, hi) ==
    {Table(cols, dtypes, rs) : rs \in UNION {[1..k -> rows] : k \in lo..hi}}

\* The heap holding the caller's tables r and f only.
CallerHeap(r, f) ==
    [o \in Objects |-> IF o = RealArg THEN r ELSE IF o = FakeArg THEN f ELSE NoTable]

NSamplesArgs(lo, hi) == {NoArg} \cup {Arg(k) : k \in lo..hi}

\* A row of the columns cols: c in column "c", the number n in the others.
Row(cols, c, n) == [j \in 1..Len(cols) |-> IF cols[j] = "c" THEN StrCell(c) ELSE IntCell(n)]

IntDtypes(cols) == [j \in 1..Len(cols) |-> IF cols[j] = "c" THEN "object" ELSE "int64"]

NoEvaluators == [e \in Evaluators |-> NoEvaluator]

----------------------------------------------------------------------------
(* SpecAlign: the constructor, on tables whose columns agree, agree up to  *)
(* their order, or differ, with missing entries.                           *)

AlignRows(cols) ==
    {r \in [1..Len(cols) -> {StrCell("x"), NaNCell, FloatCell(1)}] :
        \A j \in 1..Len(cols) :
            r[j] \in (IF cols[j] = "c" THEN {StrCell("x"), NaNCell} ELSE {FloatCell(1), NaNCell})}

AlignTables(cols) ==
    TablesOver(cols, [j \in 1..Len(cols) |-> IF cols[j] = "c" THEN "object" ELSE "float64"],
               AlignRows(cols), 1, MaxRows)

AlignFakeColumns == {<<"c", "n">>, <<"n", "c">>, <<"c">>, <<"c", "m">>, <<"c", "n", "m">>}

InitAlign ==
    /\ \E fc \in AlignFakeColumns :
         \E r \in AlignTables(<<"c", "n">>), f \in AlignTables(fc) : heap = CallerHeap(r, f)
    /\ ev = NoEvaluators
    /\ ret = NoRet

Construct == \E nArg \in NSamplesArgs(0, MaxRows + 1) : Init_(1, nArg, DefaultSeed)

SpecAlign == InitAlign /\ [][Construct]_vars

----------------------------------------------------------------------------
(* Spec: the constructor, then the operations that encode, measure and     *)
(* evaluate, in any order.                                                 *)

OpsTables(cols) ==
    TablesOver(cols, IntDtypes(cols), {Row(cols, "x", 0), Row(cols, "y", 0)}, 1, MaxOpsRows)

Init ==
    /\ \E r \in OpsTables(<<"c", "n">>), f \in OpsTables(<<"c", "n">>) : heap = CallerHeap(r, f)
    /\ ev = NoEvaluators
    /\ ret = NoRet

ConstructOps == Init_(1, NoArg, DefaultSeed)

Operation(e) ==
    \/ ConvertNumerical(e)
    \/ ConvertNumericalOneHot(e)
    \/ \E return_len \in BOOLEAN : GetCopies(e, return_len)
    \/ \E return_values \in BOOLEAN : GetDuplicates(e, return_values)
    \/ \E nArg \in NSamplesArgs(1, 1) : RowDistance(e, nArg)
    \/ ColumnCorrelations(e)
    \/ \E target_type \in {"class", "other"} : EstimatorEvaluation(e, "n", target_type, FALSE)
    \/ \E target_type \in {"class", "other"} :
          Evaluate(e, "n", target_type, Arg(DefaultNSamplesDistance), FALSE, TRUE)

Next == ConstructOps \/ Operation(1)

Spec == Init /\ [][Next]_vars

----------------------------------------------------------------------------
(* SpecRead: the constructor, then the operations that only read the       *)
(* aligned pair, in any order.                                             *)

ReadTables(cols) ==
    TablesOver(cols, IntDtypes(cols),
               {Row(cols, "x", 0), Row(cols, "y", 0), Row(cols, "y", 1)}, 1, MaxReadRows)

InitRead ==
    /\ \E r \in ReadTables(<<"c", "n">>), f \in ReadTables(<<"c", "n">>) : heap = CallerHeap(r, f)
    /\ ev = NoEvaluators
    /\ ret = NoRet

ConstructRead == \E nArg \in NSamplesArgs(1, MaxReadRows) : Init_(1, nArg, DefaultSeed)

Reading(e) ==
    \/ ConvertNumericalOneHot(e)
    \/ \E return_len \in BOOLEAN : GetCopies(e, return_len)
    \/ \E return_values \in BOOLEAN : GetDuplicates(e, return_values)
    \/ \E nArg \in NSamplesArgs(0, MaxReadRows) : RowDistance(e, nArg)
    \/ BasicStatisticalEvaluation(e)
    \/ CorrelationCorrelation(e)
    \/ \E how \in DistanceKinds \cup {"other"} : CorrelationDistance(e, how)

NextRead == ConstructRead \/ Reading(1)

SpecRead == InitRead /\ [][NextRead]_vars

----------------------------------------------------------------------------
(* SpecEnc: the encoders and the distance on a constructed evaluator whose *)
(* categorical column has up to three categories. The evaluator starts as  *)
(* its constructor leaves it when sample() keeps every row in its place.   *)

EncTables(cols) ==
    TablesOver(cols, IntDtypes(cols),
               {Row(cols, "x", 0), Row(cols, "y", 1), Row(cols, "z", 2)}, 1, MaxEncRows)

InitEnc ==
    /\ \E r \in EncTables(<<"n", "c">>), f \in EncTables(<<"n", "c">>) :
         /\ Len(r.rows) = Len(f.rows)
         /\ heap = AlignedHeap(CallerHeap(r, f), 1, r, f)
         /\ ev = [NoEvaluators EXCEPT ![1] = NewEvaluator(r, Len(r.rows), DefaultSeed)]
    /\ ret = Ret("__init__", 1, <<NoArg, DefaultSeed>>, "", <<>>)

NextEnc ==
    \/ ConvertNumerical(1)
    \/ ConvertNumericalOneHot(1)
    \/ RowDistance(1, NoArg)

SpecEnc == InitEnc /\ [][NextEnc]_vars

----------------------------------------------------------------------------
(* SpecDet: a first evaluator is constructed and runs estimator_evaluation *)
(* (once or more), then a second evaluator is constructed from the same    *)
(* caller's tables and the same seed, and runs it too.                     *)

\* The table of n rows whose last k rows differ from the others.
DetTable(n, k) ==
    Table(<<"c", "n">>, IntDtypes(<<"c", "n">>),
          [i \in 1..n |-> IF i > n - k THEN Row(<<"c", "n">>, "y", 1) ELSE Row(<<"c", "n">>, "x", 0)])

InitDet ==
    /\ \E n \in NSplits..(NSplits + MaxDetExtra), k \in 1..MaxDetOnes :
         heap = CallerHeap(DetTable(n, 1), DetTable(n, k))
    /\ ev = NoEvaluators
    /\ ret = NoRet

HasRun(e) == ev[e].estimators_scores # Unset

ConstructDet(e) ==
    /\ e = 1 \/ HasRun(1)
    /\ Init_(e, NoArg, DefaultSeed)

EstimatorEvaluationDet(e) ==
    /\ e = 1 => ev[2].state = "none"
    /\ \E kfold \in BOOLEAN : EstimatorEvaluation(e, "n", "class", kfold)

NextDet == \E e \in Evaluators : ConstructDet(e) \/ EstimatorEvaluationDet(e)

SpecDet == InitDet /\ [][NextDet]_vars

----------------------------------------------------------------------------
(* SpecEval: evaluate and estimator_evaluation, with any target column and *)
(* target type, on a constructed evaluator whose tables have the rows a    *)
(* 5-fold split needs. The evaluator starts as its constructor leaves it   *)
(* when sample() keeps every row in its place.                             *)

\* The targets a caller names: the column n with any target type, and a
\* name that is no column, with a target type that is none either.
Targets == ({"n"} \X TargetTypes) \cup {<<"zz", "other">>}

InitEval ==
    /\ \E n \in NSplits..(NSplits + MaxDetExtra) :
         /\ heap = AlignedHeap(CallerHeap(DetTable(n, 1), DetTable(n, MaxDetOnes)), 1,
                               DetTable(n, 1), DetTable(n, MaxDetOnes))
         /\ ev = [NoEvaluators EXCEPT ![1] = NewEvaluator(DetTable(n, 1), n, DefaultSeed)]
    /\ ret = Ret("__init__", 1, <<NoArg, DefaultSeed>>, "", <<>>)

NextEval ==
    \/ \E target \in Targets, kfold \in BOOLEAN :
          EstimatorEvaluation(1, target[1], target[2], kfold)
    \/ \E target \in Targets, kfold \in BOOLEAN, return_outputs \in BOOLEAN :
          Evaluate(1, target[1], target[2], Arg(DefaultNSamplesDistance), kfold, return_outputs)
    \/ BasicStatisticalEvaluation(1)
    \/ CorrelationCorrelation(1)

SpecEval == InitEval /\ [][NextEval]_vars

----------------------------------------------------------------------------
(* Properties of the constructor, under SpecAlign.                         *)

\* The constructor of evaluator 1 has been called on the caller's tables.
Called == ret.op = "__init__" /\ ret.e = 1

ShorterLen == Min(Len(heap[RealArg].rows), Len(heap[FakeArg].rows))

SameColumnNames == Range(heap[RealArg].columns) = Range(heap[FakeArg].columns)

\* C1: after construction the aligned real and fake tables have the same
\* number of rows, which is n_samples, and the same columns in the same
\* order.
C1_AlignedPair ==
    Constructed(1) =>
        /\ Len(SelfReal(1).rows) = ev[1].n_samples
        /\ Len(SelfFake(1).rows) = ev[1].n_samples
        /\ SelfReal(1).columns = SelfFake(1).columns

\* The part of C1 about the lengths alone.
AlignedLengths ==
    Constructed(1) =>
        /\ Len(SelfReal(1).rows) = ev[1].n_samples
        /\ Len(SelfFake(1).rows) = ev[1].n_samples

\* C2: on tables with the same column names, a n_samples larger than the
\* length of either table makes the constructor raise an Exception and no
\* evaluator is built (the value is not brought down to the shorter length);
\* a n_samples that fits gives tables of that many rows; with no n_samples
\* the shorter length is taken.
C2_NSamples ==
    (Called /\ SameColumnNames) =>
        IF ret.arg[1].given /\ ret.arg[1].n > ShorterLen
        THEN /\ ev[1].state = "raised"
             /\ ret.exc = "Exception"
             /\ SelfReal(1) = NoTable /\ SelfFake(1) = NoTable
        ELSE /\ Constructed(1)
             /\ ret.exc = ""
             /\ ev[1].n_samples = (IF ret.arg[1].given THEN ret.arg[1].n ELSE ShorterLen)
             /\ Len(SelfReal(1).rows) = ev[1].n_samples
             /\ Len(SelfFake(1).rows) = ev[1].n_samples

C2_Witness ==
    /\ Called /\ SameColumnNames
    /\ ret.arg[1].given /\ ret.arg[1].n > ShorterLen
    /\ ret.arg[1].n <= Len(heap[RealArg].rows)
    /\ ret.exc = "Exception"

C2_WitnessFits ==
    /\ Called /\ SameColumnNames
    /\ ret.arg[1].given /\ ret.arg[1].n < ShorterLen
    /\ Constructed(1)

\* C3: when the column names of the fake table are not those of the real
\* table, as many or not, the constructor raises (a KeyError from the
\* selection of real's columns when they are as many, the AssertionError
\* otherwise) and nothing was sampled or imputed.
C3_SchemaMismatch ==
    (Called /\ ~SameColumnNames) =>
        /\ ev[1].state = "raised"
        /\ ret.exc = (IF Len(heap[RealArg].columns) = Len(heap[FakeArg].columns)
                      THEN "KeyError" ELSE "AssertionError")
        /\ SelfReal(1) = NoTable /\ SelfFake(1) = NoTable

C3_Witness ==
    /\ Called /\ ~SameColumnNames
    /\ Len(heap[RealArg].columns) # Len(heap[FakeArg].columns)
    /\ ret.exc = "AssertionError"

C3_WitnessSameCount ==
    /\ Called /\ ~SameColumnNames
    /\ Len(heap[RealArg].columns) = Len(heap[FakeArg].columns)
    /\ ret.exc = "KeyError"

----------------------------------------------------------------------------
(* Properties of the operations, under Spec.                               *)

\* C4: no step changes the tables the caller passed to the constructor:
\* the constructor and every operation work on the evaluator's own copies.
C4_CallerTablesKept ==
    [][heap'[RealArg] = heap[RealArg] /\ heap'[FakeArg] = heap[FakeArg]]_vars

\* convert_numerical has encoded the evaluator's tables, and the caller's
\* tables still hold their strings.
C4_Witness ==
    /\ Constructed(1)
    /\ ret.op = "convert_numerical" /\ ret.exc = ""
    /\ Dtype(SelfReal(1), "c") = "int64" /\ Dtype(heap[RealArg], "c") = "object"
    /\ Dtype(SelfFake(1), "c") = "int64" /\ Dtype(heap[FakeArg], "c") = "object"

\* C5: once the evaluator is constructed, no operation changes the aligned
\* pair or the column partition, so that a secondary entry point (here the
\* count of copies) returns the same before and after any operation.
C5_OperationsKeepAlignedPair ==
    [][Constructed(1) =>
          /\ SelfReal(1)' = SelfReal(1)
          /\ SelfFake(1)' = SelfFake(1)
          /\ ev[1].numerical_columns' = ev[1].numerical_columns
          /\ ev[1].categorical_columns' = ev[1].categorical_columns
          /\ get_copies(SelfReal(1), SelfFake(1), TRUE)'
               = get_copies(SelfReal(1), SelfFake(1), TRUE)]_vars

\* The last part of C5 alone: the count of copies is the same before and
\* after any operation.
CopiesCountKept ==
    [][Constructed(1) =>
          get_copies(SelfReal(1), SelfFake(1), TRUE)'
            = get_copies(SelfReal(1), SelfFake(1), TRUE)]_vars

----------------------------------------------------------------------------
(* Properties of the measurements on the aligned pair, under SpecRead.     *)

Count(s, x) == Cardinality({i \in 1..Len(s) : s[i] = x})

\* The caller passed the same table as real and as fake.
FakeIsReal == heap[FakeArg] = heap[RealArg]

\* The first part of C7: get_copies returns the aligned fake rows whose
\* values are those of some aligned real row, each as often as it occurs in
\* fake, or their number.
CopiesAreTheMatchingRows ==
    (ret.op = "get_copies" /\ ret.e = 1) =>
        IF ret.arg[1]
        THEN ret.val = <<Cardinality({i \in 1..Len(SelfFake(1).rows) :
                             SelfFake(1).rows[i] \in Range(SelfReal(1).rows)})>>
        ELSE \A x \in Range(SelfFake(1).rows) \cup Range(ret.val) :
                Count(ret.val, x) = (IF x \in Range(SelfReal(1).rows)
                                     THEN Count(SelfFake(1).rows, x) ELSE 0)

\* C7: get_copies returns exactly the aligned fake rows that match some
\* aligned real row by value (or their number), and when fake is the same
\* table as real their number is n_samples.
C7_GetCopies ==
    /\ CopiesAreTheMatchingRows
    /\ (ret.op = "get_copies" /\ ret.e = 1 /\ ret.arg[1] /\ FakeIsReal) =>
           ret.val = <<ev[1].n_samples>>

\* The minima the specification describes: one for each of the first n rows
\* of fake, over the first n rows of real.
PerFakeRowMinima ==
    LET sp == StandardizedPair(SelfReal(1), SelfFake(1), ev[1].categorical_columns)
    IN  MinDistances(sp.fake, sp.real, DistanceRows(SelfReal(1), ret.arg[1]))

\* C9: the mean and the standard deviation row_distance returns are those
\* of the minima taken for each of the (at most n_samples) fake rows over
\* the (at most n_samples) real rows.
C9_PerFakeRowMinima ==
    (ret.op = "row_distance" /\ ret.e = 1 /\ ret.exc = "" /\ ~ret.val.nan) =>
        /\ ret.val.mean = Mean(PerFakeRowMinima)
        /\ ret.val.std = PopulationStd(PerFakeRowMinima)

\* C10: when fake is the same table as real, row_distance returns mean 0
\* and standard deviation 0 whenever it returns.
C10_SameTableDistanceZero ==
    (ret.op = "row_distance" /\ ret.e = 1 /\ ret.exc = "" /\ FakeIsReal) =>
        /\ ~ret.val.nan
        /\ ret.val.mean = 0
        /\ ret.val.std = 0

----------------------------------------------------------------------------
(* Properties of the one-hot encoder, under SpecEnc.                       *)

OneHotReturned == ret.op = "convert_numerical_one_hot" /\ ret.e = 1

\* The values of column c of the aligned table t.
Categories(t, c) == Range(Column(t, c))

\* The encoded column at position j of f indicates a category.
IsIndicator(f, j) == f.cols[j].name.suffix # NoSuffix

\* C8: convert_numerical_one_hot returns, without raising, two tables with
\* the same list of columns, sorted, and taken from real's expansion: every
\* column of real is there, with an indicator for each of its categories
\* when they are more than two; no indicator is for a category only fake
\* has; an indicator for a category only real has is 0 in every row of the
\* fake result.
C8_OneHotColumns ==
    OneHotReturned =>
        LET R     == ret.val[1]
            F     == ret.val[2]
            names == EncNames(R)
        IN  /\ ret.exc = ""
            /\ EncNames(F) = names
            /\ \A i, j \in 1..Len(names) : i < j => NameLess(names[i], names[j])
            /\ R.n = Len(SelfReal(1).rows) /\ F.n = Len(SelfFake(1).rows)
            /\ \A j \in 1..Len(names) :
                  /\ Len(R.cols[j].vals) = R.n /\ Len(F.cols[j].vals) = F.n
                  /\ names[j].base \in Range(SelfReal(1).columns)
                  /\ IsIndicator(R, j) =>
                        names[j].suffix \in Categories(SelfReal(1), names[j].base)
                  /\ (IsIndicator(R, j)
                         /\ names[j].suffix \notin Categories(SelfFake(1), names[j].base)) =>
                        \A i \in 1..F.n : F.cols[j].vals[i] = 0
            /\ \A c \in Range(SelfReal(1).columns) :
                  IF c \in Range(ev[1].categorical_columns)
                        /\ Cardinality(Categories(SelfReal(1), c)) > 2
                  THEN \A v \in Categories(SelfReal(1), c) : EncName(c, v) \in Range(names)
                  ELSE EncName(c, NoSuffix) \in Range(names)

\* Real has three categories and fake lacks one of them, whose indicator is
\* among the columns returned.
C8_Witness ==
    /\ OneHotReturned /\ ret.exc = ""
    /\ \E j \in 1..Len(ret.val[2].cols) :
          /\ IsIndicator(ret.val[2], j)
          /\ ret.val[2].cols[j].name.suffix \notin Categories(SelfFake(1), "c")
          /\ Cardinality(Categories(SelfFake(1), "c")) = 2

\* Fake has three categories and real has two of them: the indicators of
\* fake are not among the columns returned.
C8_WitnessDropped ==
    /\ OneHotReturned /\ ret.exc = ""
    /\ Cardinality(Categories(SelfFake(1), "c")) = 3
    /\ Cardinality(Categories(SelfReal(1), "c")) = 2
    /\ \A j \in 1..Len(ret.val[2].cols) : ~IsIndicator(ret.val[2], j)

----------------------------------------------------------------------------
(* Properties of repeated runs of estimator_evaluation, under SpecDet.     *)

\* The folds evaluator e ran, with the rows it assigned to train and test.
FoldsOf(e) == [i \in 1..Len(ev[e].estimators_scores.res) |-> ev[e].estimators_scores.res[i].data]

\* The step is a call of estimator_evaluation on an evaluator e that ran it
\* before, with the same arguments.
RepeatedCall(e) ==
    /\ HasRun(e)
    /\ ret'.op = "estimator_evaluation" /\ ret'.e = e /\ ret'.exc = ""
    /\ Len(ev'[e].estimators_scores.res) = Len(ev[e].estimators_scores.res)

\* Both evaluators, built from the same tables and the same seed, have run
\* estimator_evaluation with the same arguments.
BothRan ==
    /\ HasRun(1) /\ HasRun(2)
    /\ ev[1].random_seed = ev[2].random_seed
    /\ ev[1].target_col = ev[2].target_col /\ ev[1].target_type = ev[2].target_type
    /\ Len(ev[1].estimators_scores.res) = Len(ev[2].estimators_scores.res)

\* The first half of C6: a repeated call on one evaluator assigns the same
\* rows to the folds and gives the same metric tables.
RepeatedCallReproduces ==
    [][\A e \in Evaluators :
          RepeatedCall(e) => /\ FoldsOf(e)' = FoldsOf(e)
                             /\ ev'[e].estimators_scores = ev[e].estimators_scores]_vars

\* C6: for the same real and fake inputs and the same seed, running
\* estimator_evaluation twice, as a repeated call on one evaluator or as a
\* call on each of two evaluators, assigns the same rows to the train and
\* test side of every fold and gives the same metric tables.
C6_Determinism ==
    [][/\ \A e \in Evaluators :
             RepeatedCall(e) => /\ FoldsOf(e)' = FoldsOf(e)
                                /\ ev'[e].estimators_scores = ev[e].estimators_scores
       /\ BothRan' => /\ FoldsOf(1)' = FoldsOf(2)'
                      /\ ev'[1].estimators_scores = ev'[2].estimators_scores]_vars

----------------------------------------------------------------------------
(* Properties of evaluate and estimator_evaluation, under SpecEval.        *)

\* The last call is evaluate or estimator_evaluation, whose first two
\* arguments are target_col and target_type.
EvaluationCalled == ret.e = 1 /\ ret.op \in {"evaluate", "estimator_evaluation"}

\* evaluate returned the mapping of its results (return_outputs is true).
MappingReturned == ret.e = 1 /\ ret.op = "evaluate" /\ ret.exc = "" /\ ret.arg[5]

\* C11: evaluate or estimator_evaluation with a target_type other than
\* 'class' or 'regr' raises, with no estimator copied, fitted or scored in
\* the call and nothing returned; what is raised is the ValueError of the
\* target type when target_col is a column of the tables (the KeyError of
\* the column otherwise). A mapping evaluate returns has the overview, the
\* ML efficacy, the privacy and the two statistical sections.
C11_InvalidTargetType ==
    /\ (EvaluationCalled /\ ret.arg[2] \notin {"class", "regr"}) =>
          /\ ret.exc # ""
          /\ ret.arg[1] \in Range(SelfReal(1).columns) => ret.exc = "ValueError"
          /\ ret.val = <<>>
          /\ ev[1].estimator_calls = <<>>
    /\ MappingReturned =>
          /\ ret.arg[2] \in {"class", "regr"}
          /\ {"Overview Results", "Privacy Results",
              "Jensen-Shannon distance", "Kolmogorov-Smirnov statistic"} \subseteq ret.val.sections
          /\ \E title \in {"Classifier Results", "\nRegressor MSE-scores"} :
                title \in ret.val.sections
          /\ ret.val.overview.similarity_score.of = "np.mean"
          /\ ret.val.efficacy = ev[1].estimators_scores
          /\ ret.val.privacy.exc = ""

C11_Witness ==
    /\ ret.e = 1 /\ ret.op = "evaluate"
    /\ ret.arg[1] = "n" /\ ret.arg[2] = "other"
    /\ ret.exc = "ValueError"

C11_WitnessMapping == MappingReturned /\ ret.arg[2] = "regr"

\* The three scores a call of evaluate computes on the evaluator's tables
\* as the call finds them: the correlation of the basic statistics, the
\* correlation of the association matrices, and the estimators' score on
\* the encoded tables the call leaves.
ScoresOfTheCall ==
    <<[of |-> "spearmanr",
       on |-> StatisticalResults(SelfReal(1), SelfFake(1), ev[1].numerical_columns)],
      [of |-> "comparison_metric",
       on |-> Associations(SelfReal(1), SelfFake(1), ev[1].categorical_columns)],
      [of |-> IF ret'.arg[2] = "regr" THEN "comparison_metric" ELSE "1 - mape",
       on |-> EstimatorsScores(EstimatorsRes(SelfReal(1)', SelfFake(1)', ret'.arg[1], ret'.arg[2],
                                             ret'.arg[4], ev[1].random_seed))]>>

\* C12: in the mapping a call of evaluate returns, the Similarity Score is
\* the mean of exactly the three scores that call computed, which are also
\* the three other entries of the overview; none is a value an earlier call
\* left in the evaluator.
C12_SimilarityScore ==
    [][MappingReturned' =>
          /\ ret'.val.overview.similarity_score = [of |-> "np.mean", on |-> ScoresOfTheCall]
          /\ ret'.val.overview.basic_statistical = ScoresOfTheCall[1]
          /\ ret'.val.overview.correlation_correlation = ScoresOfTheCall[2]
          /\ ret'.val.overview.estimators = ScoresOfTheCall[3]]_vars

C12_Witness ==
    /\ MappingReturned
    /\ Len(ret.val.overview.similarity_score.on) = 3
    /\ ret.arg[2] = "class"

\* A later call: the association matrices are those of tables an earlier
\* call had encoded.
C12_WitnessLaterCall ==
    /\ MappingReturned
    /\ Dtype(ret.val.overview.correlation_correlation.on.real, "c") = "int64"

\* The last call ran the fold loop to its end.
LoopRan == EvaluationCalled /\ ret.exc = ""

\* The kfold argument of the last call.
KFoldArg == IF ret.op = "evaluate" THEN ret.arg[4] ELSE ret.arg[3]

\* The positions in the calls of the last run of those of kind kind in
\* fold i.
CallsOf(kind, i) ==
    {p \in 1..Len(ev[1].estimator_calls) :
        ev[1].estimator_calls[p].kind = kind /\ ev[1].estimator_calls[p].fold = i}

\* The rows a sequence of row positions holds are first..last, in order.
IsBlock(index, first, last) ==
    /\ Len(index) = last - first + 1
    /\ \A k \in 1..Len(index) : index[k] = first + k - 1

\* The first and the last row of the test block of fold i of a 5-way split
\* of n rows, whose first n % 5 blocks have one row more.
BlockFirst(n, i) == (i - 1) * (n \div 5) + Min(i - 1, n % 5) + 1
BlockLast(n, i) == i * (n \div 5) + Min(i, n % 5)

\* C13: the loop of estimator_evaluation runs the folds of the 5-way split
\* in order, all 5 with kfold and the first only without; in each fold run
\* every estimator of the panel is copied anew for real and for fake, each
\* copy is fitted once on the train rows of the fold (all rows but the test
\* block) before any copy of the fold is scored on the test block, and the
\* mean over the folds is the last call, after every fold was scored.
C13_FoldLoop ==
    LoopRan =>
        LET calls  == ev[1].estimator_calls
            n      == Len(SelfReal(1).rows)
            last   == IF KFoldArg THEN 5 ELSE 1
            panel  == Range(Panel(ret.arg[2]))
        IN  /\ Len(calls) > 0
            /\ calls[Len(calls)].kind = "mean"
            /\ \A p \in 1..(Len(calls) - 1) :
                  /\ calls[p].kind \in {"deepcopy", "fit", "score"}
                  /\ calls[p].fold \in 1..last
                  /\ calls[p].estimator \in panel
                  /\ \A q \in (p + 1)..(Len(calls) - 1) : calls[p].fold <= calls[q].fold
            /\ Len(ev[1].estimators_scores.res) = last
            /\ \A i \in 1..last :
                  /\ \A name \in panel, side \in {"real", "fake"} :
                        /\ Cardinality({p \in CallsOf("deepcopy", i) :
                               calls[p].estimator = name /\ calls[p].side = side}) = 1
                        /\ Cardinality({p \in CallsOf("fit", i) :
                               calls[p].estimator = name /\ calls[p].side = side}) = 1
                        /\ \E p \in CallsOf("score", i) :
                               calls[p].estimator = name /\ calls[p].side = side
                  /\ \A d \in CallsOf("deepcopy", i), f \in CallsOf("fit", i) : d < f
                  /\ \A f \in CallsOf("fit", i), c \in CallsOf("score", i) : f < c
                  /\ \A c \in CallsOf("score", i) :
                        IsBlock(calls[c].index, BlockFirst(n, i), BlockLast(n, i))
                  /\ \A f \in CallsOf("fit", i) :
                        /\ Len(calls[f].index) = n - (BlockLast(n, i) - BlockFirst(n, i) + 1)
                        /\ Range(calls[f].index) = (1..n) \ (BlockFirst(n, i)..BlockLast(n, i))
                  /\ ev[1].estimators_scores.res[i].data.test_index
                        = [k \in 1..(BlockLast(n, i) - BlockFirst(n, i) + 1) |-> BlockFirst(n, i) + k - 1]

\* All five folds were run.
C13_Witness ==
    /\ LoopRan /\ KFoldArg
    /\ CallsOf("score", 5) # {}
    /\ ev[1].estimator_calls[Len(ev[1].estimator_calls)].kind = "mean"

\* Without kfold the loop stopped after the first fold.
C13_WitnessFirstFold ==
    /\ LoopRan /\ ~KFoldArg
    /\ CallsOf("score", 1) # {} /\ CallsOf("deepcopy", 2) = {}

====
